---- MODULE Spec2Model ----
(***************************************************************************)
(* Model of the build-task runner of src/src/main.rs: the configuration    *)
(* loader, the three line scanners (variables, tasks, execute queue), the  *)
(* command resolver and the sequential execution loop of main.             *)
(*                                                                         *)
(* Text is modelled as a sequence of one-character strings, so that the    *)
(* trimming, splitting and prefix tests of the source are computed on      *)
(* characters, as the source computes them.                                *)
(***************************************************************************)
EXTENDS Naturals, Integers, Sequences, FiniteSets, TLC

(***************************************************************************)
(* Bounds of the model.                                                    *)
(***************************************************************************)
MaxChunks == 3

(***************************************************************************)
(* Character classes and string primitives of the Rust standard library    *)
(* that the source uses.                                                   *)
(***************************************************************************)
WhiteSpace == {" ", "\t", "\r"}

TrimPat == {" ", "\""}

BracketPat == {"[", "]"}

SetMin(S) == CHOOSE x \in S : \A y \in S : x <= y

SetMax(S) == CHOOSE x \in S : \A y \in S : x >= y

\* str::trim_matches: strips from both ends the characters of cs
TrimMatches(s, cs) ==
    LET keep == {i \in 1..Len(s) : s[i] \notin cs}
    IN  IF keep = {} THEN <<>> ELSE SubSeq(s, SetMin(keep), SetMax(keep))

\* str::trim: strips surrounding white space
Trim(s) == TrimMatches(s, WhiteSpace)

\* str::starts_with
StartsWith(s, p) == Len(s) >= Len(p) /\ SubSeq(s, 1, Len(p)) = p

\* str::split on a one-character pattern: every occurrence separates two
\* pieces, so n occurrences give n + 1 pieces (empty pieces included)
RECURSIVE Split(_, _)
Split(s, c) ==
    LET at == {i \in 1..Len(s) : s[i] = c}
    IN  IF at = {} THEN <<s>>
        ELSE LET i == SetMin(at)
             IN  <<SubSeq(s, 1, i - 1)>> \o Split(SubSeq(s, i + 1, Len(s)), c)

\* one line of str::lines: a trailing carriage return is not part of the line
StripCR(l) == IF Len(l) > 0 /\ l[Len(l)] = "\r" THEN SubSeq(l, 1, Len(l) - 1) ELSE l

\* str::lines: lines end at a line feed; a last line with no line feed counts
\* when it is not empty
Lines(s) ==
    LET pieces == Split(s, "\n")
        n == Len(pieces)
        m == IF pieces[n] = <<>> THEN n - 1 ELSE n
    IN  [i \in 1..m |-> IF i < n THEN StripCR(pieces[i]) ELSE pieces[i]]

(***************************************************************************)
(* get_line_key_value (main.rs 43-60)                                      *)
(***************************************************************************)
NoPair == [some |-> FALSE, key |-> <<>>, value |-> <<>>]

get_line_key_value(line) ==
    LET split == Split(line, "=")
    IN  IF Len(split) < 2 THEN NoPair
        ELSE [some |-> TRUE,
              key |-> TrimMatches(split[1], TrimPat),
              value |-> TrimMatches(split[2], TrimPat)]

(***************************************************************************)
(* get_variables_map (main.rs 64-84)                                       *)
(***************************************************************************)
\* MapInsert keeping the value of a key that is already present
MapInsert_keeping(m, k, v) ==
    [x \in DOMAIN m \cup {k} |-> IF x \in DOMAIN m THEN m[x] ELSE v]

\* HashMap::insert
MapInsert(m, k, v) == [x \in DOMAIN m \cup {k} |-> IF x = k THEN v ELSE m[x]]

EmptyMap == [x \in {} |-> <<>>]

\* body of the loop over the lines
VariablesStep(variables_, line) ==
    LET trimmed == Trim(line)
        kv == get_line_key_value(trimmed)
    IN  IF trimmed # <<>> /\ trimmed[1] # "$" THEN variables_
        ELSE IF kv.some THEN MapInsert(variables_, kv.key, kv.value)
        ELSE variables_

RECURSIVE VariablesScan(_, _)
VariablesScan(variables_, ls) ==
    IF ls = <<>> THEN variables_
    ELSE VariablesScan(VariablesStep(variables_, Head(ls)), Tail(ls))

get_variables_map(config_) == VariablesScan(EmptyMap, Lines(config_))

(***************************************************************************)
(* get_user_tasks (main.rs 87-144)                                         *)
(***************************************************************************)
CommandWord == <<"c", "o", "m", "m", "a", "n", "d">>

Task(name, command) == [name |-> name, command |-> command]

TaskScanInit == [tasks |-> <<>>, task_name |-> <<>>, task_found |-> FALSE,
                 warned |-> <<>>]

\* the loop body taking a [...] line met while seeking a command as the
\* header of a new task
TaskScanStep_restarting(st, line) ==
    LET trimmed == Trim(line)
        kv == get_line_key_value(trimmed)
    IN  IF line = <<>> THEN st
        ELSE IF trimmed # <<>> /\ trimmed[1] = "[" /\ trimmed[Len(trimmed)] = "]" THEN
            [st EXCEPT !.task_name = TrimMatches(trimmed, BracketPat),
                       !.task_found = TRUE]
        ELSE IF ~st.task_found THEN st
        ELSE
            IF ~StartsWith(trimmed, CommandWord) THEN st
            ELSE IF ~kv.some THEN st
            ELSE IF kv.value = <<>> THEN [st EXCEPT !.warned = Append(st.warned, st.task_name)]
            ELSE [st EXCEPT !.tasks = Append(st.tasks, Task(st.task_name, kv.value)),
                            !.task_name = <<>>,
                            !.task_found = FALSE]

\* body of the loop over the lines; warned collects the task names of the
\* "has no command" warnings the loop prints
TaskScanStep(st, line) ==
    LET trimmed == Trim(line)
        kv == get_line_key_value(trimmed)
    IN  IF line = <<>> THEN st
        ELSE IF ~st.task_found THEN
            IF trimmed # <<>> /\ trimmed[1] # "[" THEN st
            ELSE IF trimmed # <<>> /\ trimmed[Len(trimmed)] # "]" THEN st
            ELSE [st EXCEPT !.task_name = st.task_name \o TrimMatches(trimmed, BracketPat),
                            !.task_found = TRUE]
        ELSE
            IF ~StartsWith(trimmed, CommandWord) THEN st
            ELSE IF ~kv.some THEN st
            ELSE IF kv.value = <<>> THEN [st EXCEPT !.warned = Append(st.warned, st.task_name)]
            ELSE [st EXCEPT !.tasks = Append(st.tasks, Task(st.task_name, kv.value)),
                            !.task_name = <<>>,
                            !.task_found = FALSE]

RECURSIVE TaskScan(_, _)
TaskScan(st, ls) ==
    IF ls = <<>> THEN st ELSE TaskScan(TaskScanStep(st, Head(ls)), Tail(ls))

get_user_tasks(config_) == TaskScan(TaskScanInit, Lines(config_))

(***************************************************************************)
(* get_execute_queue (main.rs 147-168)                                     *)
(***************************************************************************)
ExecuteHeader == <<"[", "e", "x", "e", "c", "u", "t", "e", "]">>

QueueScanInit == [queue |-> <<>>, in_execute_task |-> FALSE, broke |-> FALSE]

\* the test that opens the execute section (main.rs 153)
IsExecuteLine(line) == StartsWith(line, ExecuteHeader)

\* body of the loop over the lines; broke records that the loop was left
QueueScanStep(st, line) ==
    IF st.broke THEN st
    ELSE IF IsExecuteLine(line) THEN [st EXCEPT !.in_execute_task = TRUE]
    ELSE IF st.in_execute_task /\ line = <<>> THEN [st EXCEPT !.broke = TRUE]
    ELSE IF st.in_execute_task THEN [st EXCEPT !.queue = Append(st.queue, line)]
    ELSE st

RECURSIVE QueueScan(_, _)
QueueScan(st, ls) ==
    IF ls = <<>> THEN st ELSE QueueScan(QueueScanStep(st, Head(ls)), Tail(ls))

get_execute_queue(config_) == QueueScan(QueueScanInit, Lines(config_)).queue

(***************************************************************************)
(* Command resolution (main.rs 208-226)                                    *)
(***************************************************************************)
CommandSpec(program, args) == [program |-> program, args |-> args]

\* ResolveArg with the substituted value looked up once more
ResolveArg_expanding(variables_, arg) ==
    LET once == IF arg \in DOMAIN variables_ THEN variables_[arg] ELSE arg
    IN  IF once \in DOMAIN variables_ THEN variables_[once] ELSE once

\* the argument added for one token (main.rs 218-221)
ResolveArg(variables_, arg) ==
    IF arg \in DOMAIN variables_ THEN variables_[arg] ELSE arg

\* CommandTokens with every token but the last keeping the space after it
CommandTokens_inclusive(command) ==
    LET split == Split(command, " ")
    IN  [i \in 1..Len(split) |-> IF i < Len(split) THEN split[i] \o <<" ">> ELSE split[i]]

\* task.command.split(" ") (main.rs 212)
CommandTokens(command) == Split(command, " ")

\* Command::new(first) and the while loop over the remaining tokens
ResolveCommand(variables_, command) ==
    LET split == CommandTokens(command)
    IN  CommandSpec(split[1],
                    [i \in 1..(Len(split) - 1) |-> ResolveArg(variables_, split[i + 1])])

\* the loop over the tasks: commands.insert(task.name, command)
RECURSIVE ResolveAll(_, _, _)
ResolveAll(commands_, variables_, ts) ==
    IF ts = <<>> THEN commands_
    ELSE ResolveAll(MapInsert(commands_, Head(ts).name,
                              ResolveCommand(variables_, Head(ts).command)),
                    variables_, Tail(ts))

(***************************************************************************)
(* Configuration texts the model starts from.  A text is the concatenation *)
(* of at most MaxChunks chunks of the pool; a chunk is a few lines, each   *)
(* ended by a line feed.                                                   *)
(***************************************************************************)
NameA == <<"A">>

NameB == <<"B">>

NameC == <<"C">>

KeyK == <<"K">>

KeyJ == <<"J">>

HeaderLine(name) == <<"[">> \o name \o <<"]">>

CommandLine(command) == CommandWord \o <<" ", "=", " ">> \o command

VarLine(key, value) == <<"$">> \o key \o <<" ", "=", " ", "\"">> \o value \o <<"\"">>

Chunk(kind, name, text, lines) ==
    [kind |-> kind, name |-> name, text |-> text, lines |-> lines]

VarChunk(key, value) == Chunk("var", key, value, <<VarLine(key, value)>>)

TaskChunk(name, command) ==
    Chunk("task", name, command, <<HeaderLine(name), CommandLine(command)>>)

\* a header, a second header before any command line, then a command line
NestedHeaderChunk ==
    Chunk("other", NameA, <<"r">>,
          <<HeaderLine(NameA), HeaderLine(NameB), CommandLine(<<"r">>)>>)

\* a header followed by a command line whose value is empty
EmptyCommandChunk ==
    Chunk("other", NameA, <<>>, <<HeaderLine(NameA), CommandWord \o <<" ", "=">>>>)

\* a line made of one space
BlankChunk == Chunk("other", <<>>, <<>>, <<<<" ">>>>)

Pool ==
    << VarChunk(KeyK, <<"v">>),
       VarChunk(KeyK, <<"$", "J">>),
       VarChunk(KeyJ, <<"a", "=", "b">>),
       TaskChunk(NameA, <<"$", "J", " ", "$", "K", " ", "x">>),
       TaskChunk(NameB, <<"q">>),
       Chunk("exec", <<>>, <<>>, <<ExecuteHeader, NameA, NameC, NameB>>),
       Chunk("exec", <<>>, <<>>, <<ExecuteHeader, NameA, NameC, NameA, <<>>>>),
       Chunk("other", <<>>, <<>>, <<ExecuteHeader \o <<"x">>, NameB>>),
       Chunk("other", <<>>, <<>>, <<<<" ">> \o ExecuteHeader, NameA>>),
       NestedHeaderChunk,
       EmptyCommandChunk,
       BlankChunk >>

RECURSIVE ChunkLines(_)
ChunkLines(bs) ==
    IF bs = <<>> THEN <<>> ELSE Pool[Head(bs)].lines \o ChunkLines(Tail(bs))

RECURSIVE TextOf(_)
TextOf(ls) ==
    IF ls = <<>> THEN <<>> ELSE Head(ls) \o <<"\n">> \o TextOf(Tail(ls))

ChunkSeqs == UNION {[1..n -> 1..Len(Pool)] : n \in 0..MaxChunks}

(***************************************************************************)
(* State                                                                   *)
(***************************************************************************)
VARIABLES
    blocks,       \* the chunks the initial file text was built from
    fileExists,   \* build.cfg exists
    fileContent,  \* its contents
    canOpen,      \* File::open succeeds on the existing file
    canCreate,    \* File::create succeeds
    canRead,      \* read_to_string succeeds on the opened file
    pc,           \* position of main
    config,       \* main's config
    variables,    \* main's variables
    tasks,        \* main's tasks
    commands,     \* main's commands
    queue,        \* main's queue
    queued,       \* the queue as get_execute_queue returned it
    task_name,    \* the entry popped by the while loop
    pending,      \* the Output returned by command.output()
    invoked,      \* the processes main has asked the system to run
    console       \* what was printed

vars == <<blocks, fileExists, fileContent, canOpen, canCreate, canRead, pc, config,
          variables, tasks, commands, queue, queued, task_name, pending, invoked, console>>

fsVars == <<fileExists, fileContent>>

envVars == <<blocks, canOpen, canCreate, canRead>>

Msg(kind, task, text) == [kind |-> kind, task |-> task, text |-> text, nvars |-> 0, ntasks |-> 0]

FoundMsg(nv, nt) == [kind |-> "found", task |-> <<>>, text |-> "", nvars |-> nv, ntasks |-> nt]

NoOutput == [success |-> FALSE, stdout |-> [utf8 |-> TRUE, text |-> ""],
             stderr |-> [utf8 |-> TRUE, text |-> ""]]

\* captured byte streams: empty, valid text, bytes that are not UTF-8
Streams == {[utf8 |-> TRUE, text |-> ""], [utf8 |-> TRUE, text |-> "text"],
            [utf8 |-> FALSE, text |-> "bytes"]}

Outputs == [success : BOOLEAN, stdout : Streams, stderr : Streams]

SpawnErrors == {"No such file or directory", "Permission denied"}

Init ==
    /\ blocks \in ChunkSeqs
    /\ fileExists \in BOOLEAN
    /\ fileContent = (IF fileExists THEN TextOf(ChunkLines(blocks)) ELSE <<>>)
    /\ ~fileExists => blocks = <<>>
    /\ canOpen \in BOOLEAN
    /\ canCreate \in BOOLEAN
    /\ canRead \in BOOLEAN
    /\ ~fileExists => ~canOpen /\ canRead
    /\ (fileExists /\ canOpen) => canCreate
    /\ (fileExists /\ ~canOpen) => canRead
    /\ pc = "load"
    /\ config = <<>>
    /\ variables = EmptyMap
    /\ tasks = <<>>
    /\ commands = EmptyMap
    /\ queue = <<>>
    /\ queued = <<>>
    /\ task_name = <<>>
    /\ pending = NoOutput
    /\ invoked = <<>>
    /\ console = <<>>

(***************************************************************************)
(* get_build_config (main.rs 17-40) and its call in main (189-197)         *)
(***************************************************************************)
\* File::open(BUILD_CONFIG) succeeds
FileOpens == fileExists /\ canOpen

get_build_config ==
    IF ~FileOpens THEN
        IF ~canCreate THEN [ok |-> FALSE, value |-> <<>>, created |-> FALSE,
                            err |-> "failed to create build config!"]
        ELSE [ok |-> TRUE, value |-> <<>>, created |-> TRUE, err |-> ""]
    ELSE IF ~canRead THEN [ok |-> FALSE, value |-> <<>>, created |-> FALSE,
                           err |-> "failed to read build config!"]
    ELSE [ok |-> TRUE, value |-> fileContent, created |-> FALSE, err |-> ""]

LoadConfig ==
    /\ pc = "load"
    /\ LET r == get_build_config
           created == IF r.created THEN <<Msg("created", <<>>, "")>> ELSE <<>>
       IN  /\ fileExists' = (fileExists \/ r.created)
           /\ fileContent' = (IF r.created THEN <<>> ELSE fileContent)
           /\ IF r.ok
              THEN /\ config' = r.value
                   /\ console' = console \o <<Msg("reading", <<>>, "")>> \o created
                   /\ pc' = "parse"
              ELSE /\ config' = config
                   /\ console' = console \o <<Msg("reading", <<>>, ""), Msg("error", <<>>, r.err)>>
                   /\ pc' = "done"
    /\ UNCHANGED <<envVars, variables, tasks, commands, queue, queued, task_name, pending, invoked>>

(***************************************************************************)
(* main 199-206: the variables, the tasks and the summary line             *)
(***************************************************************************)
ParseConfig ==
    /\ pc = "parse"
    /\ LET scan == get_user_tasks(config)
           vs == get_variables_map(config)
       IN  /\ variables' = vs
           /\ tasks' = scan.tasks
           /\ console' = console
                 \o [i \in 1..Len(scan.warned) |-> Msg("warn", scan.warned[i], "")]
                 \o <<FoundMsg(Cardinality(DOMAIN vs), Len(scan.tasks))>>
    /\ pc' = "resolve"
    /\ UNCHANGED <<envVars, fsVars, config, commands, queue, queued, task_name, pending, invoked>>

(***************************************************************************)
(* main 208-226                                                            *)
(***************************************************************************)
ResolveCommands ==
    /\ pc = "resolve"
    /\ commands' = ResolveAll(EmptyMap, variables, tasks)
    /\ pc' = "queue"
    /\ UNCHANGED <<envVars, fsVars, config, variables, tasks, queue, queued, task_name, pending,
                   invoked, console>>

(***************************************************************************)
(* main 228-233                                                            *)
(***************************************************************************)
ReadQueue ==
    /\ pc = "queue"
    /\ LET q == get_execute_queue(config)
       IN  /\ queue' = q
           /\ queued' = q
           /\ IF q = <<>>
              THEN /\ console' = Append(console, Msg("empty", <<>>, ""))
                   /\ pc' = "done"
              ELSE /\ console' = console
                   /\ pc' = "loop"
    /\ UNCHANGED <<envVars, fsVars, config, variables, tasks, commands, task_name, pending,
                   invoked>>

(***************************************************************************)
(* main 235-245: the execution loop                                        *)
(***************************************************************************)
\* PopFront reading the front entry without removing it
PopFront_keeping(q) == [task_name |-> Head(q), rest |-> q]

\* PopFront taking the entry at the back of the queue
PopFront_back(q) == [task_name |-> q[Len(q)], rest |-> SubSeq(q, 1, Len(q) - 1)]

\* VecDeque::pop_front on a queue that is not empty
PopFront(q) == [task_name |-> Head(q), rest |-> Tail(q)]

\* while let None: the loop, and main, end
LoopExit ==
    /\ pc = "loop"
    /\ queue = <<>>
    /\ pc' = "done"
    /\ UNCHANGED <<envVars, fsVars, config, variables, tasks, commands, queue, queued, task_name,
                   pending, invoked, console>>

\* SkipEntry leaving the loop at the entry that has no command
SkipEntry_leaving ==
    /\ pc = "loop"
    /\ queue # <<>>
    /\ PopFront(queue).task_name \notin DOMAIN commands
    /\ queue' = PopFront(queue).rest
    /\ task_name' = PopFront(queue).task_name
    /\ pc' = "done"
    /\ UNCHANGED <<envVars, fsVars, config, variables, tasks, commands, queued, pending,
                   invoked, console>>

\* an entry with no command registered: the body of the if let is not run
SkipEntry ==
    /\ pc = "loop"
    /\ queue # <<>>
    /\ LET p == PopFront(queue)
       IN  /\ p.task_name \notin DOMAIN commands
           /\ queue' = p.rest
           /\ task_name' = p.task_name
    /\ pc' = "loop"
    /\ UNCHANGED <<envVars, fsVars, config, variables, tasks, commands, queued, pending,
                   invoked, console>>

\* an entry with a command: the started line, then command.output() is called
StartEntry ==
    /\ pc = "loop"
    /\ queue # <<>>
    /\ LET p == PopFront(queue)
       IN  /\ p.task_name \in DOMAIN commands
           /\ queue' = p.rest
           /\ task_name' = p.task_name
           /\ console' = Append(console, Msg("started", p.task_name, ""))
           /\ invoked' = Append(invoked, [task |-> p.task_name,
                                          command |-> commands[p.task_name]])
    /\ pc' = "wait"
    /\ UNCHANGED <<envVars, fsVars, config, variables, tasks, commands, queued, pending>>

\* command.output() returns Err(e)
SpawnFails ==
    /\ pc = "wait"
    /\ \E e \in SpawnErrors :
          console' = Append(console, Msg("failed to execute", task_name, e))
    /\ pc' = "loop"
    /\ UNCHANGED <<envVars, fsVars, config, variables, tasks, commands, queue, queued, task_name,
                   pending, invoked>>

\* the process exits and command.output() returns Ok(output)
ProcessExits ==
    /\ pc = "wait"
    /\ pending' \in Outputs
    /\ pc' = "report"
    /\ UNCHANGED <<envVars, fsVars, config, variables, tasks, commands, queue, queued, task_name,
                   invoked, console>>

\* output_task_result printing the captured stream without testing it
output_task_result_unchecked(name, output) ==
    IF output.success
    THEN <<Msg("finished", name, ""), Msg("stdout", name, output.stdout.text)>>
    ELSE <<Msg("failed", name, ""), Msg("stderr", name, output.stderr.text)>>

\* output_task_result taking every exit status for a success
output_task_result_anystatus(name, output) ==
    <<Msg("finished", name, "")>>
    \o (IF output.stdout.utf8 /\ output.stdout.text # ""
        THEN <<Msg("stdout", name, output.stdout.text)>> ELSE <<>>)

\* the lines output_task_result prints (main.rs 170-186)
output_task_result(name, output) ==
    IF output.success
    THEN <<Msg("finished", name, "")>>
         \o (IF output.stdout.utf8 /\ output.stdout.text # ""
             THEN <<Msg("stdout", name, output.stdout.text)>> ELSE <<>>)
    ELSE <<Msg("failed", name, "")>>
         \o (IF output.stderr.utf8 /\ output.stderr.text # ""
             THEN <<Msg("stderr", name, output.stderr.text)>> ELSE <<>>)

ReportResult ==
    /\ pc = "report"
    /\ console' = console \o output_task_result(task_name, pending)
    /\ pending' = NoOutput
    /\ pc' = "loop"
    /\ UNCHANGED <<envVars, fsVars, config, variables, tasks, commands, queue, queued, task_name,
                   invoked>>

Next ==
    \/ LoadConfig
    \/ ParseConfig
    \/ ResolveCommands
    \/ ReadQueue
    \/ LoopExit
    \/ SkipEntry
    \/ StartEntry
    \/ SpawnFails
    \/ ProcessExits
    \/ ReportResult

Spec == Init /\ [][Next]_vars

\* the steps the execution loop takes by itself: a sequential program goes
\* on to its next statement
EngineStep ==
    \/ LoopExit
    \/ SkipEntry
    \/ StartEntry
    \/ ReportResult

\* command.output() returns: the spawn fails or the process exits
OutputReturns == SpawnFails \/ ProcessExits

\* the chunks that decide what the execution loop does: the task blocks and
\* the execute sections
EngineChunks == {b \in 1..Len(Pool) : Pool[b].kind \in {"task", "exec"}}

\* the initial states whose configuration is made of those chunks
FairInit == Init /\ \A i \in 1..Len(blocks) : blocks[i] \in EngineChunks

\* the loop runs on, and every call of command.output() returns
FairSpec == FairInit /\ [][Next]_vars /\ WF_vars(EngineStep) /\ WF_vars(OutputReturns)

(***************************************************************************)
(* Properties                                                              *)
(***************************************************************************)
StatusKinds == {"started", "finished", "failed", "failed to execute"}

OutcomeKinds == {"finished", "failed", "failed to execute"}

IsStatus(m) == m.kind \in StatusKinds

\* the status lines of the console, in the order they were printed
StatusLines == SelectSeq(console, IsStatus)

Registered(name) == name \in DOMAIN commands

\* the entries the loop has popped so far
Consumed == SubSeq(queued, 1, Len(queued) - Len(queue))

InvokedNames == [i \in 1..Len(invoked) |-> invoked[i].task]

\* the configuration has been scanned for the queue
QueueRead ==
    \/ pc \in {"loop", "wait", "report"}
    \/ pc = "done" /\ console # <<>> /\ console[Len(console)].kind \in StatusKinds \cup {"empty"}

\* C1: the processes invoked are exactly the entries popped from the execute
\* queue that have a registered command, in queue order and once per
\* occurrence, each with the command registered under its name; the queue is
\* consumed from the front; and every invocation is followed by its outcome
\* line before the next started line.
C1_ExecutionOrder ==
    LET inFlight == IF pc \in {"wait", "report"} THEN 1 ELSE 0
    IN  /\ Len(queue) <= Len(queued)
        /\ queue = SubSeq(queued, Len(queued) - Len(queue) + 1, Len(queued))
        /\ InvokedNames = SelectSeq(Consumed, Registered)
        /\ \A i \in 1..Len(invoked) : invoked[i].command = commands[invoked[i].task]
        /\ Len(StatusLines) = 2 * Len(invoked) - inFlight
        /\ \A i \in 1..Len(StatusLines) :
              /\ StatusLines[i].task = invoked[(i + 1) \div 2].task
              /\ (i % 2 = 1) => StatusLines[i].kind = "started"
              /\ (i % 2 = 0) => StatusLines[i].kind \in OutcomeKinds
        /\ pc = "done" => queue = <<>>

\* a finished run in which one task ran twice, a defined task was never
\* queued and a queued name had no command
C1_Witness ==
    /\ pc = "done"
    /\ \E i, j \in 1..Len(invoked) : i < j /\ invoked[i].task = invoked[j].task
    /\ \E n \in DOMAIN commands : \A i \in 1..Len(queued) : queued[i] # n
    /\ \E i \in 1..Len(queued) : ~Registered(queued[i])

\* tokens of a command string, from the positions of its spaces
SpacesOf(c) == {i \in 1..Len(c) : c[i] = " "}

NthSpace(c, k) ==
    IF k = 0 THEN 0
    ELSE IF k = Cardinality(SpacesOf(c)) + 1 THEN Len(c) + 1
    ELSE CHOOSE p \in SpacesOf(c) : Cardinality({q \in SpacesOf(c) : q <= p}) = k

TokenAt(c, k) == SubSeq(c, NthSpace(c, k) + 1, NthSpace(c, k + 1) - 1)

\* C4: for the last task of every name, the registered command has the
\* first space-separated token as program, unsubstituted, and one argument
\* per remaining token, in order: the value of the variable when the token
\* is a key of the mapping, the token itself otherwise; the value is never
\* looked up again.
C4_CommandResolution ==
    pc = "queue" =>
        /\ DOMAIN commands = {tasks[i].name : i \in 1..Len(tasks)}
        /\ \A i \in 1..Len(tasks) :
              (\A j \in (i + 1)..Len(tasks) : tasks[j].name # tasks[i].name) =>
                  LET c == tasks[i].command
                      spec == commands[tasks[i].name]
                      n == Cardinality(SpacesOf(c))
                  IN  /\ spec.program = TokenAt(c, 0)
                      /\ Len(spec.args) = n
                      /\ \A k \in 1..n :
                            spec.args[k] = IF TokenAt(c, k) \in DOMAIN variables
                                           THEN variables[TokenAt(c, k)]
                                           ELSE TokenAt(c, k)

\* a command whose program token is a variable key, with an argument that
\* was substituted by a value that is itself a key, and a literal argument
C4_Witness ==
    /\ pc = "queue"
    /\ \E n \in DOMAIN commands :
          /\ commands[n].program \in DOMAIN variables
          /\ \E k \in 1..Len(commands[n].args) : commands[n].args[k] \in DOMAIN variables
          /\ \E k \in 1..Len(commands[n].args) : commands[n].args[k] \notin DOMAIN variables

IsFailure(m) == m.kind \in {"failed", "failed to execute"}

\* C5: a process that exits without success is reported as failed, a process
\* that cannot be spawned is reported as failed to execute with the error
\* text; neither changes the queue or leaves the loop, and a run with a
\* failure ends having invoked every queued entry that has a command.
C5_FailureDoesNotHalt ==
    /\ []((pc = "done" /\ \E i \in 1..Len(console) : IsFailure(console[i]))
            => InvokedNames = SelectSeq(queued, Registered))
    /\ [][/\ (pc = "report" /\ ~pending.success) =>
                /\ Len(console') > Len(console)
                /\ console'[Len(console) + 1] = Msg("failed", task_name, "")
                /\ queue' = queue
                /\ pc' = "loop"
          /\ (pc = "wait" /\ pc' # "report") =>
                /\ \E e \in SpawnErrors :
                      console' = Append(console, Msg("failed to execute", task_name, e))
                /\ queue' = queue
                /\ pc' = "loop"]_vars

\* a finished run where a spawn failure and a failed exit were both followed
\* by the start of a later entry
C5_Witness ==
    /\ pc = "done"
    /\ \E i, j, k \in 1..Len(console) :
          /\ i < k /\ j < k
          /\ console[i].kind = "failed to execute"
          /\ console[j].kind = "failed"
          /\ console[k].kind = "started"

\* C6: popping an entry that has no registered command changes nothing but
\* the queue (no process, no console line), so the run continues from the
\* state it would be in had the entry not been queued; no status line ever
\* names an unregistered entry.
C6_UnknownEntrySkipped ==
    /\ [](\A i \in 1..Len(console) : IsStatus(console[i]) => Registered(console[i].task))
    /\ [][(pc = "loop" /\ queue # <<>> /\ ~Registered(Head(queue))) =>
                /\ queue' = Tail(queue)
                /\ pc' = "loop"
                /\ console' = console
                /\ invoked' = invoked
                /\ UNCHANGED <<fileExists, fileContent, config, variables, tasks, commands,
                               pending>>]_vars

\* a finished run whose queue had an unregistered entry between two
\* registered ones, all registered entries invoked
C6_Witness ==
    /\ pc = "done"
    /\ \E i, j, k \in 1..Len(queued) :
          /\ i < j /\ j < k
          /\ Registered(queued[i]) /\ ~Registered(queued[j]) /\ Registered(queued[k])
    /\ InvokedNames = SelectSeq(queued, Registered)

IsTaskBlock(b) == Pool[b].kind = "task"

\* main has loaded the text the blocks were written as
TextLoaded == config = TextOf(ChunkLines(blocks))

\* the configuration is made of variable lines, complete task blocks and
\* one execute section
BuiltFromBlocks ==
    /\ \A i \in 1..Len(blocks) : Pool[blocks[i]].kind \in {"var", "task", "exec"}
    /\ Cardinality({i \in 1..Len(blocks) : Pool[blocks[i]].kind = "exec"}) = 1

\* C2: in a configuration made of variable lines, one execute section and
\* complete task blocks in any order, get_user_tasks yields one task per
\* block, with the block's name and command, in block order, and no other.
C2_TaskPerBlock ==
    (pc = "resolve" /\ TextLoaded /\ BuiltFromBlocks) =>
        LET tb == SelectSeq(blocks, IsTaskBlock)
        IN  tasks = [i \in 1..Len(tb) |-> Task(Pool[tb[i]].name, Pool[tb[i]].text)]

\* C3: after get_variables_map, the key K of every variable line
\* $K = "V" (without the $) maps to the V of the last line that defines K.
C3_VariableStored ==
    (pc = "resolve" /\ TextLoaded) =>
        \A i \in 1..Len(blocks) :
            (/\ Pool[blocks[i]].kind = "var"
             /\ \A j \in (i + 1)..Len(blocks) :
                   Pool[blocks[j]].kind = "var" => Pool[blocks[j]].name # Pool[blocks[i]].name)
            => /\ Pool[blocks[i]].name \in DOMAIN variables
               /\ variables[Pool[blocks[i]].name] = Pool[blocks[i]].text

\* C7: load has three outcomes and no other: an absent file that can be
\* created is created empty and the run goes on with an empty configuration;
\* an absent file that cannot be created, and an existing file that cannot
\* be read, end the run with an error line; an existing readable file is
\* returned as it is.
C7_LoadOutcomes ==
    [][pc = "load" =>
          /\ (~fileExists /\ canCreate) =>
                fileExists' /\ fileContent' = <<>> /\ config' = <<>> /\ pc' = "parse"
          /\ (~fileExists /\ ~canCreate) =>
                pc' = "done" /\ console'[Len(console')].kind = "error"
          /\ (fileExists /\ ~(canOpen /\ canRead)) =>
                pc' = "done" /\ console'[Len(console')].kind = "error"
          /\ (fileExists /\ canOpen /\ canRead) =>
                config' = fileContent /\ fileContent' = fileContent /\ pc' = "parse"]_vars

\* the lines after the first line that is exactly [execute], up to the first
\* empty line after it or the end of the input
LinesOfFirstSection(ls) ==
    LET heads == {i \in 1..Len(ls) : ls[i] = ExecuteHeader}
    IN  IF heads = {} THEN <<>>
        ELSE LET f == SetMin(heads)
                 ends == {j \in (f + 1)..Len(ls) : ls[j] = <<>>}
                 e == IF ends = {} THEN Len(ls) + 1 ELSE SetMin(ends)
             IN  SubSeq(ls, f + 1, e - 1)

\* every line that begins with [execute] is exactly [execute]
OnlyExactHeaders ==
    \A i \in 1..Len(Lines(config)) :
        IsExecuteLine(Lines(config)[i]) => Lines(config)[i] = ExecuteHeader

\* C8: the queue get_execute_queue returns is the sequence of the lines that
\* follow the first [execute] line, verbatim and in order, up to the first
\* blank line after it or the end of the input (stated for the
\* configurations whose [execute] lines are all exactly [execute]).
C8_QueueIsFirstSection ==
    (QueueRead /\ OnlyExactHeaders) => queued = LinesOfFirstSection(Lines(config))

\* C9: the execute section is opened only by a line that is exactly
\* [execute]: with no such line in the configuration nothing is queued.
C9_ExactHeaderOnly ==
    (QueueRead /\ \A i \in 1..Len(Lines(config)) : Lines(config)[i] # ExecuteHeader)
        => queued = <<>>

\* C10: on every variable line and command line of the configuration the
\* splitter yields no pair when the line has no =, and otherwise the text
\* before the first = as key and the whole text after the first = as value,
\* both trimmed of surrounding spaces and double quotes.
C10_SplitAtFirstEquals ==
    pc = "resolve" =>
        \A i \in 1..Len(Lines(config)) :
            LET t == Trim(Lines(config)[i])
                eqs == {k \in 1..Len(t) : t[k] = "="}
                kv == get_line_key_value(t)
            IN  (StartsWith(t, <<"$">>) \/ StartsWith(t, CommandWord)) =>
                    IF eqs = {} THEN ~kv.some
                    ELSE /\ kv.some
                         /\ kv.key = TrimMatches(SubSeq(t, 1, SetMin(eqs) - 1), TrimPat)
                         /\ kv.value = TrimMatches(SubSeq(t, SetMin(eqs) + 1, Len(t)), TrimPat)

\* the state of the task scanner before it reads line i of the configuration
TaskScanBefore(i) == TaskScan(TaskScanInit, SubSeq(Lines(config), 1, i - 1))

\* the state of the task scanner after it has read line i
TaskScanAfter(i) == TaskScanStep(TaskScanBefore(i), Lines(config)[i])

\* the trimmed line is not empty, starts with [ and ends with ]
LooksLikeHeader(line) ==
    LET t == Trim(line)
    IN  t # <<>> /\ t[1] = "[" /\ t[Len(t)] = "]"

\* C11: while get_user_tasks seeks a header, every line that is not a
\* trimmed non-empty [...] line (a line of white space included) leaves it
\* seeking a header, with no task name recorded.
C11_HeaderPhaseKept ==
    pc = "resolve" =>
        \A i \in 1..Len(Lines(config)) :
            (~TaskScanBefore(i).task_found /\ ~LooksLikeHeader(Lines(config)[i]))
                => /\ ~TaskScanAfter(i).task_found
                   /\ TaskScanAfter(i).task_name = <<>>

\* the line starts with command and the splitter gives it an empty value
IsEmptyCommandLine(line) ==
    /\ StartsWith(Trim(line), CommandWord)
    /\ get_line_key_value(Trim(line)).some
    /\ get_line_key_value(Trim(line)).value = <<>>

\* C12: a command line with an empty value found while seeking the command
\* of a header adds no task and sends the scanner back to seeking a header;
\* a complete block [U] / command = x that follows it yields the task {U, x}.
C12_EmptyCommandRejected ==
    (pc = "resolve" /\ TextLoaded) =>
        /\ \A i \in 1..Len(Lines(config)) :
              (TaskScanBefore(i).task_found /\ IsEmptyCommandLine(Lines(config)[i]))
                  => /\ TaskScanAfter(i).tasks = TaskScanBefore(i).tasks
                     /\ ~TaskScanAfter(i).task_found
        /\ \A b \in 1..(Len(blocks) - 1) :
              (/\ Pool[blocks[b]] = EmptyCommandChunk
               /\ Pool[blocks[b + 1]].kind = "task"
               /\ \A a \in 1..(b - 1) : Pool[blocks[a]].kind \in {"var", "task"})
                  => \E k \in 1..Len(tasks) :
                        tasks[k] = Task(Pool[blocks[b + 1]].name, Pool[blocks[b + 1]].text)

\* the command spec the claim expects for a command string: tokens from the
\* positions of the spaces, arguments looked up once
ExpectedSpec(c) ==
    [program |-> TokenAt(c, 0),
     args |-> [k \in 1..Cardinality(SpacesOf(c)) |->
                  IF TokenAt(c, k) \in DOMAIN variables THEN variables[TokenAt(c, k)]
                  ELSE TokenAt(c, k)]]

\* C13: when a name has several task definitions, the registry holds for it
\* the command resolved from the last of them, and every invocation of that
\* name runs the program and arguments of that last definition.
C13_LastDefinitionWins ==
    pc \in {"queue", "loop", "wait", "report", "done"} =>
        \A i, j \in 1..Len(tasks) :
            (/\ i < j
             /\ tasks[i].name = tasks[j].name
             /\ \A l \in (j + 1)..Len(tasks) : tasks[l].name # tasks[j].name)
            => /\ commands[tasks[j].name] = ExpectedSpec(tasks[j].command)
               /\ \A n \in 1..Len(invoked) :
                     invoked[n].task = tasks[j].name
                         => invoked[n].command = ExpectedSpec(tasks[j].command)

\* a finished run that invoked a name defined twice with different commands
C13_Witness ==
    /\ pc = "done"
    /\ \E i, j \in 1..Len(tasks) :
          /\ i < j
          /\ tasks[i].name = tasks[j].name
          /\ tasks[i].command # tasks[j].command
          /\ \E n \in 1..Len(invoked) :
                /\ invoked[n].task = tasks[j].name
                /\ invoked[n].command.program = TokenAt(tasks[j].command, 0)
                /\ invoked[n].command.program # TokenAt(tasks[i].command, 0)

\* the tokens joined again, one space between two tokens
RECURSIVE JoinSpaces(_)
JoinSpaces(tokens) ==
    IF tokens = <<>> THEN <<>>
    ELSE IF Len(tokens) = 1 THEN tokens[1]
    ELSE tokens[1] \o <<" ">> \o JoinSpaces(Tail(tokens))

\* the string has no two consecutive spaces
NoSpaceRun(c) == \A i \in 1..(Len(c) - 1) : ~(c[i] = " " /\ c[i + 1] = " ")

\* C15: for every task command with no run of two or more spaces, the
\* tokens the resolver splits it into, joined with single spaces, give the
\* command string back.
C15_SplitJoinRoundTrip ==
    pc = "resolve" =>
        \A i \in 1..Len(tasks) :
            NoSpaceRun(tasks[i].command)
                => JoinSpaces(CommandTokens(tasks[i].command)) = tasks[i].command

\* a parsed command of three tokens with no run of spaces
C15_Witness ==
    /\ pc = "resolve"
    /\ \E i \in 1..Len(tasks) :
          /\ NoSpaceRun(tasks[i].command)
          /\ Len(CommandTokens(tasks[i].command)) = 3
          /\ JoinSpaces(CommandTokens(tasks[i].command)) = tasks[i].command

\* C16: get_build_config never changes the contents of a configuration
\* file that already exists, on any of its paths.
C16_ExistingFileUntouched ==
    [][(pc = "load" /\ fileExists) => (fileExists' /\ fileContent' = fileContent)]_vars

\* the [execute] line is followed, at some distance, by an empty line
SectionClosed(ls) ==
    \E f, e \in 1..Len(ls) : f < e /\ ls[f] = ExecuteHeader /\ ls[e] = <<>>

\* the lines without the first [execute] line and the lines queued after it
WithoutExecuteSection(ls) ==
    LET heads == {i \in 1..Len(ls) : ls[i] = ExecuteHeader}
    IN  IF heads = {} THEN ls
        ELSE LET f == SetMin(heads)
                 ends == {j \in (f + 1)..Len(ls) : ls[j] = <<>>}
                 e == IF ends = {} THEN Len(ls) + 1 ELSE SetMin(ends)
             IN  SubSeq(ls, 1, f - 1) \o SubSeq(ls, e, Len(ls))

\* C17: the tasks parsed from a configuration are the tasks parsed from the
\* same configuration without its [execute] line and queue entries (stated
\* for the configurations whose execute section is closed by an empty line
\* and whose [execute] lines are all exactly [execute]).
C17_TasksIgnoreExecuteSection ==
    (pc = "resolve" /\ OnlyExactHeaders /\ SectionClosed(Lines(config))) =>
        tasks = get_user_tasks(TextOf(WithoutExecuteSection(Lines(config)))).tasks

\* the lines a step has added to the console
Printed == SubSeq(console', Len(console) + 1, Len(console'))

\* C18: every started line is followed by exactly one outcome line of the
\* same task before any other status; captured standard output is printed
\* only right after a finished line and only when it is non-empty valid
\* text, captured standard error only right after a failed line and only
\* when it is non-empty valid text.
C18_ConsoleProtocol ==
    /\ [](\A i \in 1..Len(console) :
            /\ console[i].kind = "started" =>
                  IF i = Len(console) THEN pc \in {"wait", "report"}
                  ELSE /\ console[i + 1].kind \in OutcomeKinds
                       /\ console[i + 1].task = console[i].task
            /\ console[i].kind \in OutcomeKinds =>
                  /\ i > 1
                  /\ console[i - 1].kind = "started"
                  /\ console[i - 1].task = console[i].task
            /\ console[i].kind = "stdout" =>
                  /\ i > 1
                  /\ console[i - 1].kind = "finished"
                  /\ console[i - 1].task = console[i].task
                  /\ console[i].text # ""
            /\ console[i].kind = "stderr" =>
                  /\ i > 1
                  /\ console[i - 1].kind = "failed"
                  /\ console[i - 1].task = console[i].task
                  /\ console[i].text # "")
    /\ [][pc = "report" =>
            /\ (\E k \in 1..Len(Printed) : Printed[k].kind = "stdout")
                  <=> (pending.success /\ pending.stdout.utf8 /\ pending.stdout.text # "")
            /\ (\E k \in 1..Len(Printed) : Printed[k].kind = "stderr")
                  <=> (~pending.success /\ pending.stderr.utf8 /\ pending.stderr.text # "")
            /\ \A k \in 1..Len(Printed) :
                  /\ Printed[k].kind = "stdout" => Printed[k].text = pending.stdout.text
                  /\ Printed[k].kind = "stderr" => Printed[k].text = pending.stderr.text]_vars

\* a finished run that printed a captured standard output and a captured
\* standard error, and one whose finished line has no output after it
C18_Witness ==
    /\ pc = "done"
    /\ \E i, j \in 1..Len(console) : console[i].kind = "stdout" /\ console[j].kind = "stderr"
    /\ \E i \in 1..Len(console) :
          /\ console[i].kind = "finished"
          /\ (i = Len(console) \/ console[i + 1].kind # "stdout")

\* C19: when every call of command.output() returns, the execution loop,
\* once entered, reaches the end of main with an empty queue; each turn of
\* the loop removes exactly the front entry, the queue never grows once it
\* was read, and so the run ends after as many pops as the queue had entries.
C19_Terminates ==
    /\ (pc = "loop") ~> (pc = "done" /\ queue = <<>>)
    /\ [](pc = "done" => Len(Consumed) = Len(queued))
    /\ [][(pc = "loop" /\ queue # <<>>) => queue' = Tail(queue)]_vars
    /\ [][pc # "queue" => Len(queue') <= Len(queue)]_vars

\* a finished run whose queue had at least three entries, all popped, with
\* processes run on the way
C19_Witness ==
    /\ pc = "done"
    /\ Len(queued) >= 3
    /\ queue = <<>>
    /\ Len(invoked) >= 2


\* the line starts with command and the splitter gives it a value that is
\* not empty
IsCommandLine(line) ==
    /\ StartsWith(Trim(line), CommandWord)
    /\ get_line_key_value(Trim(line)).some
    /\ get_line_key_value(Trim(line)).value # <<>>

\* C20: while get_user_tasks seeks the command of a header [A], a line that
\* looks like a header [B] changes nothing: no task is added and the
\* recorded name stays A; the next command line with a value that is not
\* empty adds the task named A with that value, and the nested block
\* [A] / [B] / command = r yields the task {A, r} and none named B.
C20_NestedHeaderSkipped ==
    (pc = "resolve" /\ TextLoaded) =>
        /\ \A i \in 1..Len(Lines(config)) :
              (TaskScanBefore(i).task_found /\ LooksLikeHeader(Lines(config)[i]))
                  => /\ TaskScanAfter(i) = TaskScanBefore(i)
                     /\ \A j \in (i + 1)..Len(Lines(config)) :
                           (/\ IsCommandLine(Lines(config)[j])
                            /\ \A k \in (i + 1)..(j - 1) : ~IsCommandLine(Lines(config)[k]))
                               => /\ TaskScanBefore(j).task_name = TaskScanBefore(i).task_name
                                  /\ TaskScanAfter(j).tasks =
                                        Append(TaskScanBefore(i).tasks,
                                               Task(TaskScanBefore(i).task_name,
                                                    get_line_key_value(Trim(Lines(config)[j])).value))
        /\ \A b \in 1..Len(blocks) :
              (/\ Pool[blocks[b]] = NestedHeaderChunk
               /\ \A a \in 1..Len(blocks) : a # b => Pool[blocks[a]].kind = "var")
                  => tasks = <<Task(NameA, <<"r">>)>>

C20_Witness ==
    /\ pc = "resolve"
    /\ TextLoaded
    /\ \E b \in 1..Len(blocks) : Pool[blocks[b]] = NestedHeaderChunk
    /\ \E i \in 1..Len(Lines(config)) :
          /\ TaskScanBefore(i).task_found
          /\ TaskScanBefore(i).task_name = NameA
          /\ LooksLikeHeader(Lines(config)[i])
    /\ \E k \in 1..Len(tasks) : tasks[k] = Task(NameA, <<"r">>)

====
